---- MODULE Spec2Model ----
(***************************************************************************)
(* Soil moisture index computation of server/earthEngine.ts:               *)
(* calculateSoilMoistureIndex and the helpers it drives, run against a     *)
(* deterministic remote engine that may fail one evaluation.               *)
(*                                                                         *)
(* NDMI values are integers in hundredths (0.2 is 20).  One action is one  *)
(* turn of the JavaScript event loop: a call or a callback together with   *)
(* every continuation it runs before control returns to the loop.          *)
(***************************************************************************)
EXTENDS Integers, Sequences, FiniteSets, Bags, TLC

\* ---- bounds ----------------------------------------------------------------
NumReqs == 2        \* calls of calculateSoilMoistureIndex in one process
MaxInFlight == 5    \* region pipelines of unfinished calls admitted together
MaxDates == 2       \* distinct acquisition dates in the catalog
MaxDelta == 60      \* |delta| range of the status classification check
MaxBand == 4        \* |band value| range of the index check

Reqs == 1..NumReqs

\* ---- region registry ---------------------------------------------------------
regionCoordinates ==
  << [name |-> "North Region",    coords |-> <<-98, 40, -90, 45>>],
     [name |-> "Central Plains",  coords |-> <<-110, 35, -100, 42>>],
     [name |-> "Eastern Basin",   coords |-> <<-85, 38, -80, 42>>],
     [name |-> "Southern Valley", coords |-> <<-95, 30, -85, 35>>],
     [name |-> "Western Hills",   coords |-> <<-120, 38, -115, 45>> ] >>

RegionKeys == {regionCoordinates[i].name : i \in 1..Len(regionCoordinates)}

\* the value of regions[region] for a name that is no key of the registry
Undefined == <<>>

\* createRegions: one lazy ee.Geometry.Rectangle per entry, in insertion order
createRegions ==
  [i \in 1..Len(regionCoordinates) |->
     [name |-> regionCoordinates[i].name, geometry |-> regionCoordinates[i].coords]]

\* a lookup that falls back to the first entry for an unknown name
RegionLookupDefault(region) ==
  IF region \in RegionKeys
  THEN (CHOOSE e \in {createRegions[i] : i \in 1..Len(createRegions)} :
          e.name = region).geometry
  ELSE createRegions[1].geometry

\* regions[region]
RegionLookup(region) ==
  IF region \in RegionKeys
  THEN (CHOOSE e \in {createRegions[i] : i \in 1..Len(createRegions)} :
          e.name = region).geometry
  ELSE Undefined

\* a time filter whose fallback is a day
getTimeFilterDayDefault(step) ==
  CASE step = "daily"   -> [advance |-> 1, unit |-> "day"]
    [] step = "weekly"  -> [advance |-> 1, unit |-> "week"]
    [] step = "monthly" -> [advance |-> 1, unit |-> "month"]
    [] OTHER            -> [advance |-> 1, unit |-> "day"]

\* a selection that ignores the region argument
selectedRegionsUnfiltered(region) == createRegions

\* Object.entries(selectedRegions); "" stands for an absent region argument
selectedRegions(region) ==
  IF region # "" /\ region # "entire"
  THEN << [name |-> region, geometry |-> RegionLookup(region)] >>
  ELSE createRegions

\* region arguments a call is made with
RegionArgs == {"", "entire", "North Region", "Eastern Basin", "custom"}

AllNames == RegionKeys \cup (RegionArgs \ {"", "entire"})

\* ---- status classification ---------------------------------------------------
\* the classification with the 0.2 boundary taken into the higher bucket
getSoilMoistureStatusInclusive(ndmi) ==
  IF ndmi >= 20 THEN "Above Normal"
  ELSE IF ndmi > 10 THEN "Normal"
  ELSE IF ndmi > 0 THEN "Moderate Drought"
  ELSE "Severe Drought"

getSoilMoistureStatus(ndmi) ==
  IF ndmi > 20 THEN "Above Normal"
  ELSE IF ndmi > 10 THEN "Normal"
  ELSE IF ndmi > 0 THEN "Moderate Drought"
  ELSE "Severe Drought"

\* ---- time step ---------------------------------------------------------------
getTimeFilter(timeStep) ==
  CASE timeStep = "daily"   -> [advance |-> 1, unit |-> "day"]
    [] timeStep = "weekly"  -> [advance |-> 1, unit |-> "week"]
    [] timeStep = "monthly" -> [advance |-> 1, unit |-> "month"]
    [] OTHER                -> [advance |-> 1, unit |-> "week"]

\* ---- remote engine --------------------------------------------------------
VARIABLES
  env,        \* process.env: which of the two credentials are set
  engine,     \* the remote engine: the one evaluation it fails, how, its catalog
  authCalls,  \* calls of ee.data.authenticateViaPrivateKey made by the process
  initCalls,  \* calls of ee.initialize made by the process
  req,        \* per call of calculateSoilMoistureIndex: its position and data
  maxCalls,   \* calls the process receives in the run
  overlap,    \* whether a call may arrive while another one is outstanding
  delta,      \* argument of the classification under check
  status,     \* result of the classification under check
  timeStep,   \* argument of getTimeFilter under check
  timeFilter, \* result of getTimeFilter under check
  nir,        \* SR_B5 of the pixel calculateNDMI is applied to
  swir,       \* SR_B6 of the pixel calculateNDMI is applied to
  ndmi        \* result of calculateNDMI under check

pure == <<timeStep, timeFilter, nir, swir, ndmi>>

vars == <<env, engine, authCalls, initCalls, req, maxCalls, overlap, delta, status, pure>>

\* an evaluation: <<stage, region name, bucket date>>
NoFault == <<"none", "", 0>>

\* acquisition dates as yyyymmdd numbers, one per month
DateOf(i) == 20230015 + 100 * i
DateSet == {DateOf(i) : i \in 1..MaxDates}

\* a catalog of every date in ascending order
FullCatalog == [i \in 1..MaxDates |-> DateOf(i)]

\* toLocaleDateString('en-US', {month: 'short'}): the month of the date
MonthLabel(date) == (date \div 100) % 100

\* what a failed evaluation reports: an Error object or a plain string
FaultValue(kind) ==
  [isError |-> (kind = "error"), message |-> "Quota exceeded"]

NoFailure == [isError |-> FALSE, message |-> ""]

\* thrown by geometry.coordinates() when geometry is undefined
TypeError ==
  [isError |-> TRUE, message |-> "Cannot read properties of undefined"]

\* the engine's mean NDMI (hundredths) of a reduction it evaluates
MeanNDMI(e) ==
  LET cur == CASE e[2] = "North Region"    -> 35
               [] e[2] = "Central Plains"  -> 30
               [] e[2] = "Eastern Basin"   -> 20
               [] e[2] = "Southern Valley" -> 10
               [] e[2] = "Western Hills"   -> 5
               [] OTHER                    -> 12
  IN  CASE e[1] = "current"  -> cur
        [] e[1] = "baseline" -> 10
        [] e[1] = "trend"    -> cur + MonthLabel(e[3])
        [] OTHER             -> 0

\* what a second failed evaluation reports
SecondFault == [isError |-> TRUE, message |-> "Request timed out"]

\* evaluate(callback) / getInfo(): the engine's answer to evaluation e
Evaluate(e) ==
  IF engine.fault = e /\ engine.kind # "missing"
  THEN [failed |-> TRUE, error |-> FaultValue(engine.kind),
        hasNDMI |-> FALSE, NDMI |-> 0]
  ELSE IF engine.also = e
  THEN [failed |-> TRUE, error |-> SecondFault, hasNDMI |-> FALSE, NDMI |-> 0]
  ELSE [failed |-> FALSE, error |-> NoFailure,
        hasNDMI |-> (engine.fault # e), NDMI |-> MeanNDMI(e)]

\* result.NDMI, -1 standing for undefined
NDMIUnguarded(result) ==
  IF result.hasNDMI THEN result.NDMI ELSE -1

\* result.NDMI || 0
NDMIOrZero(result) ==
  IF result.hasNDMI /\ result.NDMI # 0 THEN result.NDMI ELSE 0

\* ---- request state -----------------------------------------------------------
NoError == [message |-> <<>>]
NoResult == [data |-> <<>>, regions |-> <<>>, trends |-> <<>>]
Pending == [status |-> "pending", error |-> NoError, result |-> NoResult]

\* the HTTP response of the route: none yet
NoResponse == [code |-> 0, body |-> <<>>]

IdleReq ==
  [pc |-> "idle", route |-> FALSE, valid |-> TRUE, response |-> NoResponse,
   region |-> "", tasks |-> <<>>, distinctDates |-> <<>>,
   bucket |-> 0, cursor |-> 0, regionValues |-> <<>>, trends |-> <<>>,
   outcome |-> Pending, caught |-> NoFailure, stage |-> "none",
   reordered |-> FALSE, late |-> FALSE, issued |-> EmptyBag, arrived |-> {}]

\* late records that a remote call was issued after the call had its outcome
Issue(s, e) ==
  [s EXCEPT !.issued = @ (+) SetToBag({e}),
            !.late = @ \/ s.outcome.status # "pending"]
Arrive(s, e) == [s EXCEPT !.arrived = @ \cup {e}]
Request(s, e) == Arrive(Issue(s, e), e)   \* a synchronous getInfo round trip

\* the catch block of calculateSoilMoistureIndex
Wrap(error) ==
  [message |-> << "Failed to calculate soil moisture index: ",
                  IF error.isError THEN error.message ELSE "Unknown error" >>]

\* a route that answers with the body of the outcome whatever it is
RespondOk(s) ==
  IF ~s.route THEN s
  ELSE [s EXCEPT !.response = [code |-> 200, body |-> s.outcome.result]]

\* the route handler resumes after its await of the call: res.json of the
\* result, or the 500 answer of its catch block
Respond(s) ==
  IF ~s.route THEN s
  ELSE [s EXCEPT !.response =
          IF s.outcome.status = "returned"
          THEN [code |-> 200, body |-> s.outcome.result]
          ELSE [code |-> 500, body |-> <<"Failed to fetch soil moisture data">>]]

\* an exception reaches the catch block of the call: its promise rejects
Throw(s, error, stage) ==
  Respond([s EXCEPT !.pc = "finished",
                    !.outcome = [status |-> "thrown", error |-> Wrap(error),
                                 result |-> NoResult],
                    !.caught = error, !.stage = stage])

\* ---- calculateTemporalTrends and the result ----------------------------------
Sel(s) == selectedRegions(s.region)

\* a summary whose status is taken from the value alone
RegionSummaryOfValue(regionName, task) ==
  [region |-> regionName,
   value |-> task.value,
   average |-> task.average,
   status |-> getSoilMoistureStatus(task.value),
   coordinates |-> task.coordinates]

\* the object the async callback of a region returns
RegionSummary(regionName, task) ==
  [region |-> regionName,
   value |-> task.value,
   average |-> task.average,
   status |-> getSoilMoistureStatus(task.value - task.average),
   coordinates |-> task.coordinates]

\* boundary features of every registered region, selected or not
BoundaryFeaturesAll(sel) ==
  [i \in 1..Len(createRegions) |->
     [name |-> createRegions[i].name, coordinates |-> createRegions[i].geometry]]

\* the Feature getRegionBoundaries maps each entry to
BoundaryFeatures(sel) ==
  [i \in 1..Len(sel) |-> [name |-> sel[i].name, coordinates |-> sel[i].geometry]]

\* getRegionBoundaries: one synchronous geometry round trip per region, in
\* order; the first one that throws ends the call
getRegionBoundaries(s) ==
  LET sel == Sel(s)
      bad == {i \in 1..Len(sel) :
                \/ sel[i].geometry = Undefined
                \/ Evaluate(<<"boundary", sel[i].name, 0>>).failed}
      k == IF bad = {} THEN Len(sel) ELSE CHOOSE i \in bad : \A j \in bad : i <= j
      asked == {<<"boundary", sel[i].name, 0>> :
                  i \in {j \in 1..k : sel[j].geometry # Undefined}}
      s1 == [s EXCEPT !.issued = @ (+) SetToBag(asked),
                      !.arrived = @ \cup asked]
  IN  IF bad # {}
      THEN Throw(s1, IF sel[k].geometry = Undefined THEN TypeError
                     ELSE Evaluate(<<"boundary", sel[k].name, 0>>).error,
                 "boundary")
      ELSE Respond([s1 EXCEPT
              !.pc = "finished",
              !.outcome =
                [status |-> "returned", error |-> NoError,
                 result |->
                   [data |-> [i \in 1..Len(sel) |->
                                RegionSummary(sel[i].name, s.tasks[i])],
                    regions |-> BoundaryFeatures(sel),
                    trends |-> s.trends]]])

\* a trends array kept at module level: it still holds an earlier call's points
NewTrendsLeaked ==
  LET done == {q \in Reqs : req[q].outcome.status = "returned"}
  IN  IF done = {} THEN <<>>
      ELSE req[CHOOSE q \in done : TRUE].outcome.result.trends

\* const trends = []
NewTrends == <<>>

\* a bucket loop over every registered region
TrendRegionsAll(s) == createRegions

\* Object.entries(regions) in calculateTemporalTrends: the regions passed in
TrendRegions(s) == Sel(s)

\* a bucket loop that asks for every region of the bucket at once
NextTrendConcurrent(s) ==
  IF s.bucket > Len(s.distinctDates)
  THEN getRegionBoundaries(s)
  ELSE [s EXCEPT !.pc = "trends",
                 !.issued = @ (+) SetToBag(
                   {<<"trend", TrendRegions(s)[i].name, s.distinctDates[s.bucket]>> :
                      i \in s.cursor..Len(TrendRegions(s))})]

\* head of the bucket loop of calculateTemporalTrends: ask for the reduction
\* of the region under the cursor, or leave the loop and assemble the result
NextTrend(s) ==
  IF s.bucket > Len(s.distinctDates)
  THEN getRegionBoundaries(s)
  ELSE Issue([s EXCEPT !.pc = "trends"],
             <<"trend", TrendRegions(s)[s.cursor].name, s.distinctDates[s.bucket]>>)

\* a discovery whose dates are put in ascending order locally
calculateTemporalTrendsSorted(s) ==
  LET e == <<"discovery", "", 0>>
      s1 == Request(s, e)
  IN  IF Evaluate(e).failed
      THEN Throw(s1, Evaluate(e).error, "discovery")
      ELSE NextTrend([s1 EXCEPT
             !.distinctDates = SortSeq(engine.dates, LAMBDA x, y : x < y),
             !.trends = NewTrends, !.regionValues = <<>>,
             !.bucket = 1, !.cursor = 1])

\* a bucket loop that starts from the full list of dates without discovery
calculateTemporalTrendsUndiscovered(s) ==
  NextTrend([s EXCEPT !.distinctDates = FullCatalog,
                      !.trends = NewTrends, !.regionValues = <<>>,
                      !.bucket = 1, !.cursor = 1])

\* calculateTemporalTrends up to its first reduction: distinct-date discovery
calculateTemporalTrends(s) ==
  LET e == <<"discovery", "", 0>>
      s1 == Request(s, e)
  IN  IF Evaluate(e).failed
      THEN Throw(s1, Evaluate(e).error, "discovery")
      ELSE NextTrend([s1 EXCEPT !.distinctDates = engine.dates,
                                !.trends = NewTrends, !.regionValues = <<>>,
                                !.bucket = 1, !.cursor = 1])

\* ---- the spatial stage -------------------------------------------------------
\* a map callback that asks for both reductions of a region at once
IssueCurrentAndBaseline(sel) ==
  {<<st, sel[i].name, 0>> : st \in {"current", "baseline"}, i \in 1..Len(sel)}

\* a loop that asks for one region at a time
IssueCurrentFirst(sel) == {<<"current", sel[1].name, 0>>}

\* the reductions the map callback of Promise.all asks for before it returns
IssueCurrent(sel) == {<<"current", sel[i].name, 0>> : i \in 1..Len(sel)}

\* a call that starts distinct-date discovery together with the reductions
StartSpatialWithDiscovery(s) ==
  LET sel == Sel(s)
  IN  [s EXCEPT !.pc = "spatial",
                !.tasks = [i \in 1..Len(sel) |->
                             [pc |-> "current", value |-> 0, average |-> 0,
                              coordinates |-> <<>>]],
                !.issued = @ (+) SetToBag(IssueCurrent(sel)
                                            \cup {<<"discovery", "", 0>>})]

StartSpatial(s) ==
  LET sel == Sel(s)
  IN  [s EXCEPT !.pc = "spatial",
                !.tasks = [i \in 1..Len(sel) |->
                             [pc |-> "current", value |-> 0, average |-> 0,
                              coordinates |-> <<>>]],
                !.issued = @ (+) SetToBag(IssueCurrent(sel))]

\* a batch that reports the last rejection: each one replaces the outcome
RejectTaskLast(s, i, error, stage) ==
  Throw([s EXCEPT !.tasks[i].pc = "rejected"], error, stage)

\* a rejection that is answered by asking for the same reduction again
RejectTaskRetry(s, i, error, stage) ==
  Issue(s, <<stage, Sel(s)[i].name, 0>>)

\* a rejection that settles the region without rejecting the batch
RejectTaskSettled(s, i, error, stage) ==
  [s EXCEPT !.tasks[i].pc = "rejected"]

\* the async callback of region i rejects: Promise.all rejects with the first
\* rejection only, the other callbacks go on
RejectTask(s, i, error, stage) ==
  LET s1 == [s EXCEPT !.tasks[i].pc = "rejected"]
  IN  IF s.outcome.status = "pending" THEN Throw(s1, error, stage) ELSE s1

\* a batch that resolves with the first region that returns
ResolveTaskAny(s, i, coordinates) ==
  LET s1 == [s EXCEPT !.tasks[i].pc = "done",
                      !.tasks[i].coordinates = coordinates]
  IN  IF s1.pc = "spatial" THEN calculateTemporalTrends(s1) ELSE s1

\* summaries that share one value and one average variable: the region that
\* completes the batch overwrites those of every other region
ResolveTaskShared(s, i, coordinates) ==
  LET s1 == [s EXCEPT !.tasks[i].pc = "done",
                      !.tasks[i].coordinates = coordinates]
      s2 == [s1 EXCEPT !.tasks = [j \in DOMAIN s1.tasks |->
                                    [s1.tasks[j] EXCEPT
                                       !.value = s1.tasks[i].value,
                                       !.average = s1.tasks[i].average]],
                       !.reordered = (i # Len(s1.tasks))]
  IN  IF \A j \in 1..Len(s1.tasks) : s1.tasks[j].pc = "done"
      THEN calculateTemporalTrends(s2)
      ELSE s1

\* the async callback of region i returns its summary: Promise.all resolves
\* once every callback has; reordered records that the batch was completed by
\* a region other than the last one selected
ResolveTask(s, i, coordinates) ==
  LET s1 == [s EXCEPT !.tasks[i].pc = "done",
                      !.tasks[i].coordinates = coordinates]
  IN  IF \A j \in 1..Len(s1.tasks) : s1.tasks[j].pc = "done"
      THEN calculateTemporalTrends([s1 EXCEPT !.reordered = (i # Len(s1.tasks))])
      ELSE s1

\* ---- the session handshake ----------------------------------------------------
\* a handshake the call does not wait for: the reductions are asked for at once
BeginHandshakeUnawaited(s) ==
  Issue([StartSpatial(s) EXCEPT !.pc = "auth"], <<"auth", "", 0>>)

\* initialize() calls authenticateViaPrivateKey and the call awaits its promise
BeginHandshake(s) ==
  Issue([s EXCEPT !.pc = "auth"], <<"auth", "", 0>>)

\* ---- the expression builder ----------------------------------------------------
\* a number of the engine: the exact quotient num / den, undefined when den = 0
Quotient(num, den) == [num |-> num, den |-> den]

NoValue == Quotient(0, 0)

\* an index whose denominator is the first band alone
calculateNDMIOverNir(b5, b6) == Quotient(b5 - b6, b5)

\* nir.subtract(swir).divide(nir.add(swir)) of a pixel with bands b5 and b6
calculateNDMI(b5, b6) == Quotient(b5 - b6, b5 + b6)

NoFilter == [advance |-> 0, unit |-> "none"]

\* nothing of the expression builder or the time filter is under check
PureIdle ==
  /\ timeStep = "weekly"
  /\ timeFilter = NoFilter
  /\ nir = 0
  /\ swir = 0
  /\ ndmi = NoValue

\* ---- initial states -----------------------------------------------------------
\* the evaluations the engine may be set to fail, and how
FaultKinds(stage) ==
  IF stage \in {"current", "baseline", "trend"}
  THEN {"missing", "error", "string"}
  ELSE {"error", "string"}

FaultSites ==
  {<<"auth", "", 0>>, <<"eeinit", "", 0>>, <<"discovery", "", 0>>}
  \cup {<<st, n, 0>> : st \in {"current", "baseline", "geometry", "boundary"},
                       n \in AllNames}
  \cup {<<"trend", n, d>> : n \in AllNames, d \in DateSet}

\* the catalogs: sequences of distinct dates, in the order discovery lists them
Catalogs ==
  {c \in UNION {[1..n -> DateSet] : n \in 0..MaxDates} :
     \A i, j \in DOMAIN c : i # j => c[i] # c[j]}

\* a sound engine with any catalog, or an engine that fails one evaluation in
\* one way and holds the full catalog
Engines ==
  {[fault |-> NoFault, kind |-> "error", dates |-> c, also |-> NoFault] :
     c \in Catalogs}
  \cup {[fault |-> f, kind |-> k, dates |-> FullCatalog, also |-> NoFault] :
          f \in FaultSites, k \in {"missing", "error", "string"}}

InitEngine(stages) ==
  /\ env \in [privateKey : BOOLEAN, clientEmail : BOOLEAN]
  /\ engine \in {g \in Engines :
                   /\ g.fault[1] \in stages
                   /\ g.fault = NoFault \/ g.kind \in FaultKinds(g.fault[1])}
  \* without credentials the engine is never contacted: one engine stands for all
  /\ (env.privateKey /\ env.clientEmail)
       \/ engine = [fault |-> NoFault, kind |-> "error", dates |-> FullCatalog,
                 also |-> NoFault]
  /\ authCalls = 0
  /\ initCalls = 0
  /\ req = [q \in Reqs |-> IdleReq]
  /\ delta = 0
  /\ status = "none"
  /\ PureIdle

Stages ==
  {"none", "auth", "eeinit", "current", "baseline", "geometry", "discovery",
   "trend", "boundary"}

\* one call of calculateSoilMoistureIndex against any engine
Init ==
  /\ maxCalls = 1
  /\ overlap = TRUE
  /\ InitEngine(Stages)

\* a process serving several calls, concurrent or not; the engine may fail the
\* handshake only
InitProcess ==
  /\ maxCalls = NumReqs
  /\ overlap = TRUE
  /\ InitEngine({"none", "auth", "eeinit"})

\* a process serving several calls one after the other
InitRepeat ==
  /\ maxCalls = NumReqs
  /\ overlap = FALSE
  /\ InitEngine({"none", "auth", "eeinit"})

\* the region evaluations of two regions, of which two may fail in one call
RaceSites ==
  {<<st, n, 0>> : st \in {"current", "baseline", "geometry"},
                  n \in {"North Region", "Central Plains"}}

\* one call against an engine that fails up to two region evaluations
InitRace ==
  /\ maxCalls = 1
  /\ overlap = TRUE
  /\ env = [privateKey |-> TRUE, clientEmail |-> TRUE]
  /\ engine \in
       {[fault |-> f, kind |-> k, dates |-> FullCatalog, also |-> a] :
          f \in RaceSites \cup {NoFault}, k \in {"error", "string"},
          a \in RaceSites \cup {NoFault}}
  /\ engine.fault # engine.also \/ engine.fault = NoFault
  /\ engine.fault = NoFault => (engine.kind = "error" /\ engine.also = NoFault)
  /\ authCalls = 0
  /\ initCalls = 0
  /\ req = [q \in Reqs |-> IdleReq]
  /\ delta = 0
  /\ status = "none"
  /\ PureIdle

\* ---- actions -----------------------------------------------------------------
\* region pipelines of the calls that still have work outstanding
Load(s) ==
  IF \/ s.pc \in {"idle", "refused"}
     \/ /\ s.pc = "finished"
        /\ \A i \in DOMAIN s.tasks : s.tasks[i].pc \in {"done", "rejected"}
  THEN 0
  ELSE Len(Sel(s))

RECURSIVE TotalLoad(_)
TotalLoad(qs) ==
  IF qs = {} THEN 0
  ELSE LET q == CHOOSE x \in qs : TRUE
       IN  Load(req[q]) + TotalLoad(qs \ {q})

\* calculateSoilMoistureIndex(startDate, endDate, timeStep, region) is called,
\* by the route or not: initialize() runs up to the call of
\* authenticateViaPrivateKey
Invoke(q, region, route) ==
  /\ q <= maxCalls
  /\ req[q].pc = "idle"
  /\ \A p \in Reqs : p < q => req[p].pc # "idle"
  /\ TotalLoad(Reqs) + Len(selectedRegions(region)) <= MaxInFlight
  /\ overlap \/ TotalLoad(Reqs) = 0
  /\ LET s == [req[q] EXCEPT !.region = region, !.route = route]
     IN  IF ~env.privateKey
         THEN /\ req' = [req EXCEPT ![q] = Throw(s,
                   [isError |-> TRUE,
                    message |-> "Google Earth Engine private key not found"],
                   "session")]
              /\ UNCHANGED authCalls
         ELSE IF ~env.clientEmail
         THEN /\ req' = [req EXCEPT ![q] = Throw(s,
                   [isError |-> TRUE,
                    message |-> "Google Earth Engine client email not found"],
                   "session")]
              /\ UNCHANGED authCalls
         ELSE /\ req' = [req EXCEPT ![q] = BeginHandshake(s)]
              /\ authCalls' = authCalls + 1
  /\ UNCHANGED <<env, engine, initCalls, maxCalls, overlap, delta, status, pure>>

Call(q, region) == Invoke(q, region, FALSE)

\* GET /api/soil-moisture: the handler parses the query; valid tells whether
\* soilMoistureQuerySchema.parse accepts it. A ZodError is answered with 400,
\* an accepted query is passed to calculateSoilMoistureIndex
Get(q, region, valid) ==
  IF valid
  THEN Invoke(q, region, TRUE)
  ELSE /\ q <= maxCalls
       /\ req[q].pc = "idle"
       /\ \A p \in Reqs : p < q => req[p].pc # "idle"
       /\ overlap \/ TotalLoad(Reqs) = 0
       /\ req' = [req EXCEPT ![q] =
                    [@ EXCEPT !.pc = "refused", !.route = TRUE, !.valid = FALSE,
                              !.region = region,
                              !.response =
                                [code |-> 400,
                                 body |-> <<"Invalid request parameters">>]]]
       /\ UNCHANGED <<env, engine, authCalls, initCalls, maxCalls, overlap,
                      delta, status, pure>>

\* a callback of authenticateViaPrivateKey runs
AuthCallback(q) ==
  /\ req[q].pc = "auth"
  /\ LET e == <<"auth", "", 0>>
         s == Arrive(req[q], e)
     IN  IF Evaluate(e).failed
         THEN /\ req' = [req EXCEPT ![q] = Throw(s, Evaluate(e).error, "session")]
              /\ UNCHANGED initCalls
         ELSE /\ req' = [req EXCEPT ![q] =
                   Issue([s EXCEPT !.pc = "eeinit"], <<"eeinit", "", 0>>)]
              /\ initCalls' = initCalls + 1
  /\ UNCHANGED <<env, engine, authCalls, maxCalls, overlap, delta, status, pure>>

\* an ee.initialize whose error callback resolves the promise too
InitCallbackResolves(q) ==
  /\ req[q].pc = "eeinit"
  /\ req' = [req EXCEPT ![q] = StartSpatial(Arrive(req[q], <<"eeinit", "", 0>>))]
  /\ UNCHANGED <<env, engine, authCalls, initCalls, maxCalls, overlap, delta, status, pure>>

\* a callback of ee.initialize runs; on success the call goes on to ask for
\* the current reduction of every selected region
InitCallback(q) ==
  /\ req[q].pc = "eeinit"
  /\ LET e == <<"eeinit", "", 0>>
         s == Arrive(req[q], e)
     IN  req' = [req EXCEPT ![q] =
                   IF Evaluate(e).failed
                   THEN Throw(s, Evaluate(e).error, "session")
                   ELSE StartSpatial(s)]
  /\ UNCHANGED <<env, engine, authCalls, initCalls, maxCalls, overlap, delta, status, pure>>

\* a map callback that stops once the batch has been rejected
CurrentCallbackCancelled(q, i) ==
  /\ i \in DOMAIN req[q].tasks
  /\ req[q].tasks[i].pc = "current"
  /\ LET name == Sel(req[q])[i].name
         e == <<"current", name, 0>>
         s == Arrive(req[q], e)
     IN  req' = [req EXCEPT ![q] =
                   IF Evaluate(e).failed
                   THEN RejectTask(s, i, Evaluate(e).error, "current")
                   ELSE IF s.outcome.status # "pending"
                   THEN [s EXCEPT !.tasks[i].pc = "rejected"]
                   ELSE Issue([s EXCEPT !.tasks[i].pc = "baseline",
                                        !.tasks[i].value = NDMIOrZero(Evaluate(e))],
                              <<"baseline", name, 0>>)]
  /\ UNCHANGED <<env, engine, authCalls, initCalls, maxCalls, overlap, delta, status, pure>>

\* the evaluate callback of region i's current reduction runs
CurrentCallback(q, i) ==
  /\ i \in DOMAIN req[q].tasks
  /\ req[q].tasks[i].pc = "current"
  /\ LET name == Sel(req[q])[i].name
         e == <<"current", name, 0>>
         s == Arrive(req[q], e)
     IN  req' = [req EXCEPT ![q] =
                   IF Evaluate(e).failed
                   THEN RejectTask(s, i, Evaluate(e).error, "current")
                   ELSE Issue([s EXCEPT !.tasks[i].pc = "baseline",
                                        !.tasks[i].value = NDMIOrZero(Evaluate(e))],
                              <<"baseline", name, 0>>)]
  /\ UNCHANGED <<env, engine, authCalls, initCalls, maxCalls, overlap, delta, status, pure>>

\* the evaluate callback of region i's baseline reduction runs; on success the
\* region's coordinates are resolved and its summary is returned
BaselineCallback(q, i) ==
  /\ i \in DOMAIN req[q].tasks
  /\ req[q].tasks[i].pc = "baseline"
  /\ LET r == Sel(req[q])[i]
         e == <<"baseline", r.name, 0>>
         g == <<"geometry", r.name, 0>>
         s == Arrive(req[q], e)
         s1 == [s EXCEPT !.tasks[i].average = NDMIOrZero(Evaluate(e))]
     IN  req' = [req EXCEPT ![q] =
                   IF Evaluate(e).failed
                   THEN RejectTask(s, i, Evaluate(e).error, "baseline")
                   ELSE IF r.geometry = Undefined
                   THEN RejectTask(s1, i, TypeError, "geometry")
                   ELSE IF Evaluate(g).failed
                   THEN RejectTask(Request(s1, g), i, Evaluate(g).error, "geometry")
                   ELSE ResolveTask(Request(s1, g), i, r.geometry)]
  /\ UNCHANGED <<env, engine, authCalls, initCalls, maxCalls, overlap, delta, status, pure>>

\* an evaluate callback of a bucket reduction that drops the error: the promise
\* is neither resolved nor rejected
TrendCallbackSilent(q) ==
  /\ req[q].pc = "trends"
  /\ LET s0 == req[q]
         sel == TrendRegions(s0)
         name == sel[s0.cursor].name
         date == s0.distinctDates[s0.bucket]
         e == <<"trend", name, date>>
         s == Arrive(s0, e)
         values == s.regionValues @@ (name :> NDMIOrZero(Evaluate(e)))
     IN  req' = [req EXCEPT ![q] =
                   IF Evaluate(e).failed
                   THEN [s EXCEPT !.pc = "hung"]
                   ELSE IF s.cursor < Len(sel)
                   THEN NextTrend([s EXCEPT !.regionValues = values,
                                            !.cursor = @ + 1])
                   ELSE NextTrend([s EXCEPT
                          !.trends = Append(@, [name |-> MonthLabel(date),
                                                date |-> date,
                                                values |-> values]),
                          !.regionValues = <<>>,
                          !.bucket = @ + 1, !.cursor = 1])]
  /\ UNCHANGED <<env, engine, authCalls, initCalls, maxCalls, overlap, delta, status, pure>>

\* the evaluate callback of the outstanding bucket reduction runs
TrendCallback(q) ==
  /\ req[q].pc = "trends"
  /\ LET s0 == req[q]
         sel == TrendRegions(s0)
         name == sel[s0.cursor].name
         date == s0.distinctDates[s0.bucket]
         e == <<"trend", name, date>>
         s == Arrive(s0, e)
         values == s.regionValues @@ (name :> NDMIOrZero(Evaluate(e)))
     IN  req' = [req EXCEPT ![q] =
                   IF Evaluate(e).failed
                   THEN Throw(s, Evaluate(e).error, "trend")
                   ELSE IF s.cursor < Len(sel)
                   THEN NextTrend([s EXCEPT !.regionValues = values,
                                            !.cursor = @ + 1])
                   ELSE NextTrend([s EXCEPT
                          !.trends = Append(@, [name |-> MonthLabel(date),
                                                date |-> date,
                                                values |-> values]),
                          !.regionValues = <<>>,
                          !.bucket = @ + 1, !.cursor = 1])]
  /\ UNCHANGED <<env, engine, authCalls, initCalls, maxCalls, overlap, delta, status, pure>>

Next ==
  \/ \E q \in Reqs, region \in RegionArgs : Call(q, region)
  \/ \E q \in Reqs : AuthCallback(q)
  \/ \E q \in Reqs : InitCallback(q)
  \/ \E q \in Reqs, i \in 1..Len(regionCoordinates) : CurrentCallback(q, i)
  \/ \E q \in Reqs, i \in 1..Len(regionCoordinates) : BaselineCallback(q, i)
  \/ \E q \in Reqs : TrendCallback(q)

Spec == Init /\ [][Next]_vars

SpecProcess == InitProcess /\ [][Next]_vars

SpecRepeat == InitRepeat /\ [][Next]_vars

SpecRace == InitRace /\ [][Next]_vars

\* a callback of a remote call that is outstanding runs
Callback ==
  \/ \E q \in Reqs : AuthCallback(q)
  \/ \E q \in Reqs : InitCallback(q)
  \/ \E q \in Reqs, i \in 1..Len(regionCoordinates) : CurrentCallback(q, i)
  \/ \E q \in Reqs, i \in 1..Len(regionCoordinates) : BaselineCallback(q, i)
  \/ \E q \in Reqs : TrendCallback(q)

NextRoute ==
  \/ \E q \in Reqs, region \in RegionArgs, valid \in BOOLEAN : Get(q, region, valid)
  \/ \E q \in Reqs : AuthCallback(q)
  \/ \E q \in Reqs : InitCallback(q)
  \/ \E q \in Reqs, i \in 1..Len(regionCoordinates) : CurrentCallback(q, i)
  \/ \E q \in Reqs, i \in 1..Len(regionCoordinates) : BaselineCallback(q, i)
  \/ \E q \in Reqs : TrendCallback(q)

\* a server answering one request of the route, against any engine
SpecRoute == Init /\ [][NextRoute]_vars

\* the values of the Region of Interest select of the sidebar
SidebarOptions ==
  {"entire", "custom", "region1", "region2", "region3", "region4", "region5"}

\* the region parameter of the query the client sends: none for 'entire'
ClientQuery(option) == IF option # "entire" THEN option ELSE ""

\* the user selects a region and the client fetches /api/soil-moisture
Select(q, option) ==
  \E valid \in BOOLEAN : Get(q, ClientQuery(option), valid)

NextClient ==
  \/ \E q \in Reqs, option \in SidebarOptions : Select(q, option)
  \/ \E q \in Reqs : AuthCallback(q)
  \/ \E q \in Reqs : InitCallback(q)
  \/ \E q \in Reqs, i \in 1..Len(regionCoordinates) : CurrentCallback(q, i)
  \/ \E q \in Reqs, i \in 1..Len(regionCoordinates) : BaselineCallback(q, i)
  \/ \E q \in Reqs : TrendCallback(q)

\* the client against a server whose engine never fails
InitClient ==
  /\ maxCalls = NumReqs
  /\ overlap = FALSE
  /\ InitEngine({"none"})
  /\ env = [privateKey |-> TRUE, clientEmail |-> TRUE]

SpecClient == InitClient /\ [][NextClient]_vars

\* one call against an engine (and a client) that calls back on every remote
\* call sooner or later, with a result or with an error
InitLive ==
  /\ Init
  /\ engine.kind = "error"

SpecLive == InitLive /\ [][Next]_vars /\ WF_vars(Callback)

\* ---- the classification alone ------------------------------------------------
InitStatus ==
  /\ maxCalls = 0
  /\ overlap = TRUE
  /\ env = [privateKey |-> TRUE, clientEmail |-> TRUE]
  /\ engine = [fault |-> NoFault, kind |-> "error", dates |-> FullCatalog,
                 also |-> NoFault]
  /\ authCalls = 0
  /\ initCalls = 0
  /\ req = [q \in Reqs |-> IdleReq]
  /\ delta \in (-MaxDelta)..MaxDelta
  /\ status = "none"
  /\ PureIdle

\* status: getSoilMoistureStatus(value - average)
Classify ==
  /\ status = "none"
  /\ status' = getSoilMoistureStatus(delta)
  /\ UNCHANGED <<env, engine, authCalls, initCalls, req, maxCalls, overlap, delta, pure>>

NextStatus == Classify

SpecStatus == InitStatus /\ [][NextStatus]_vars

\* ---- the time filter and the index alone -------------------------------------
\* the three time steps of the type and values outside it
TimeSteps == {"daily", "weekly", "monthly", "yearly", "hourly", ""}

Bands == (-MaxBand)..MaxBand

InitPure ==
  /\ maxCalls = 0
  /\ overlap = TRUE
  /\ env = [privateKey |-> TRUE, clientEmail |-> TRUE]
  /\ engine = [fault |-> NoFault, kind |-> "error", dates |-> FullCatalog,
                 also |-> NoFault]
  /\ authCalls = 0
  /\ initCalls = 0
  /\ req = [q \in Reqs |-> IdleReq]
  /\ delta = 0
  /\ status = "none"
  /\ timeStep \in TimeSteps
  /\ timeFilter = NoFilter
  /\ nir \in Bands
  /\ swir \in Bands
  /\ ndmi = NoValue

\* const timeFilter = getTimeFilter(timeStep)
SelectTimeFilter ==
  /\ timeFilter = NoFilter
  /\ timeFilter' = getTimeFilter(timeStep)
  /\ UNCHANGED <<env, engine, authCalls, initCalls, req, maxCalls, overlap, delta, status,
                 timeStep, nir, swir, ndmi>>

\* landsat.map(calculateNDMI) applied to one pixel
ComputeNDMI ==
  /\ ndmi = NoValue
  /\ ndmi' = calculateNDMI(nir, swir)
  /\ UNCHANGED <<env, engine, authCalls, initCalls, req, maxCalls, overlap, delta, status,
                 timeStep, timeFilter, nir, swir>>

NextPure == SelectTimeFilter \/ ComputeNDMI

SpecPure == InitPure /\ [][NextPure]_vars

\* ---- properties ---------------------------------------------------------------
Started == {q \in Reqs : req[q].pc # "idle"}
Names(s) == {Sel(s)[i].name : i \in 1..Len(Sel(s))}
IssuedSet(s) == BagToSet(s.issued)
Registered(s) == \A i \in 1..Len(Sel(s)) : Sel(s)[i].geometry # Undefined
Returned(s) == s.outcome.status = "returned"
Thrown(s) == s.outcome.status = "thrown"
Failed(e) == Evaluate(e).failed

\* C1: the classification of delta (hundredths) is Above Normal above 0.2,
\* Normal in (0.1, 0.2], Moderate Drought in (0, 0.1] and Severe Drought at or
\* below 0, so the boundaries 0.2, 0.1 and 0 fall in the lower bucket.
C1_StatusBuckets ==
  status # "none" =>
    /\ delta > 20 => status = "Above Normal"
    /\ (10 < delta /\ delta <= 20) => status = "Normal"
    /\ (0 < delta /\ delta <= 10) => status = "Moderate Drought"
    /\ delta <= 0 => status = "Severe Drought"

C1_Witness == delta = 20 /\ status = "Normal"

\* the evaluations a returned result rests on
Needed(s) ==
  {<<"auth", "", 0>>, <<"eeinit", "", 0>>, <<"discovery", "", 0>>}
  \cup {<<st, n, 0>> : st \in {"current", "baseline"}, n \in Names(s)}
  \cup {<<"trend", n, engine.dates[b]>> : n \in Names(s), b \in DOMAIN engine.dates}

\* C2: a call returns a result only when the handshake, every region's current
\* and baseline reduction, discovery and every bucket reduction of every region
\* succeeded, and the result then holds every region and every bucket; a call
\* that throws carries no result.
C2_AllOrNothing ==
  \A q \in Started :
    LET s == req[q] IN
    /\ Returned(s) =>
         /\ Needed(s) \subseteq s.arrived
         /\ \A e \in s.arrived : ~Failed(e)
         /\ \A i \in DOMAIN s.tasks : s.tasks[i].pc = "done"
         /\ Len(s.outcome.result.data) = Len(Sel(s))
         /\ Len(s.outcome.result.regions) = Len(Sel(s))
         /\ Len(s.outcome.result.trends) = Len(engine.dates)
         /\ \A b \in DOMAIN s.outcome.result.trends :
              DOMAIN s.outcome.result.trends[b].values = Names(s)
         /\ s.outcome.error = NoError
    /\ Thrown(s) => s.outcome.result = NoResult /\ s.outcome.error # NoError
    /\ s.outcome.status = "pending" =>
         s.outcome.result = NoResult /\ s.outcome.error = NoError

C2_Witness ==
  \E q \in Started :
    /\ Returned(req[q])
    /\ Len(req[q].outcome.result.data) = Len(regionCoordinates)
    /\ Len(req[q].outcome.result.trends) = MaxDates

\* C3: when the current or the baseline reduction of one selected region fails,
\* the call throws and returns no summaries, whatever the other regions do.
C3_RegionFailureFailsAll ==
  \A q \in Started :
    (\E e \in req[q].arrived : e[1] \in {"current", "baseline"} /\ Failed(e))
      => /\ Thrown(req[q])
         /\ req[q].outcome.result.data = <<>>

C3_Witness ==
  \E q \in Started :
    /\ Thrown(req[q])
    /\ req[q].stage = "baseline"
    /\ \E i \in DOMAIN req[q].tasks : req[q].tasks[i].pc = "done"
    /\ \E i \in DOMAIN req[q].tasks : req[q].tasks[i].pc = "rejected"

\* C4: the error a failed call throws carries the cause the failed step
\* reported, after the fixed description, whether the cause is an Error object
\* or any other value.
C4_ErrorCarriesCause ==
  \A q \in Started :
    Thrown(req[q]) =>
      req[q].outcome.error.message =
        <<"Failed to calculate soil moisture index: ", req[q].caught.message>>

\* C5: the error a call throws after a failed remote evaluation names the
\* stage that failed.
RemoteStages == {"current", "baseline", "discovery", "trend", "geometry"}

C5_ErrorNamesStage ==
  \A q \in Started :
    (Thrown(req[q]) /\ req[q].stage \in RemoteStages) =>
      \E i \in DOMAIN req[q].outcome.error.message :
        req[q].outcome.error.message[i] = req[q].stage

\* what the engine's table holds for a reduction, 0 when the entry is missing
Expected(e) == IF engine.fault = e THEN 0 ELSE MeanNDMI(e)

\* C6: a reduction the engine evaluates without an NDMI entry yields 0 for
\* that region in the current, baseline and bucket reductions alike; the call
\* does not throw because of it and every other value is the engine's.
C6_MissingIsZero ==
  \A q \in Started :
    LET s == req[q]
        sel == Sel(s)
        r == s.outcome.result
    IN  (engine.fault # NoFault /\ engine.kind = "missing") =>
          /\ Thrown(s) => ~Registered(s)
          /\ Returned(s) =>
               /\ \A i \in DOMAIN r.data :
                    /\ r.data[i].value = Expected(<<"current", sel[i].name, 0>>)
                    /\ r.data[i].average = Expected(<<"baseline", sel[i].name, 0>>)
               /\ \A b \in DOMAIN r.trends : \A n \in Names(s) :
                    r.trends[b].values[n] = Expected(<<"trend", n, r.trends[b].date>>)

C6_Witness ==
  \E q \in Started :
    /\ Returned(req[q])
    /\ engine.kind = "missing"
    /\ engine.fault[1] = "current"
    /\ Len(req[q].outcome.result.data) > 1
    /\ \E i \in DOMAIN req[q].outcome.result.data :
         /\ req[q].outcome.result.data[i].region = engine.fault[2]
         /\ req[q].outcome.result.data[i].value = 0

\* C7: the process performs the session handshake at most once, over any
\* sequence and any interleaving of calls.
C7_HandshakeAtMostOnce == authCalls <= 1 /\ initCalls <= 1

\* C8: a call issues no reduction, discovery or geometry request before its
\* own session initialization has completed successfully.
C8_InitBeforeEvaluation ==
  \A q \in Started :
    (\E e \in IssuedSet(req[q]) : e[1] \notin {"auth", "eeinit"}) =>
      /\ {<<"auth", "", 0>>, <<"eeinit", "", 0>>} \subseteq req[q].arrived
      /\ ~Failed(<<"auth", "", 0>>)
      /\ ~Failed(<<"eeinit", "", 0>>)

C8_Witness ==
  \E q \in Started :
    /\ req[q].pc = "spatial"
    /\ req[q].arrived = {<<"auth", "", 0>>, <<"eeinit", "", 0>>}
    /\ <<"current", "North Region", 0>> \in IssuedSet(req[q])

\* C9: with a credential missing, or with an error from the authentication or
\* the initialization callback, the call throws, returns no result and issues
\* no reduction, discovery or geometry request.
SessionFailed(s) ==
  \/ ~env.privateKey
  \/ ~env.clientEmail
  \/ \E e \in {<<"auth", "", 0>>, <<"eeinit", "", 0>>} : e \in s.arrived /\ Failed(e)

C9_SessionFailureAborts ==
  \A q \in Started :
    SessionFailed(req[q]) =>
      /\ Thrown(req[q])
      /\ req[q].outcome.result = NoResult
      /\ \A e \in IssuedSet(req[q]) : e[1] \in {"auth", "eeinit"}
      /\ req[q].tasks = <<>>

C9_Witness ==
  \E q \in Started :
    /\ Thrown(req[q])
    /\ <<"eeinit", "", 0>> \in req[q].arrived
    /\ Failed(<<"eeinit", "", 0>>)

\* C10: once the result of any region's reduction has arrived, the current
\* reduction of every selected region has already been issued.
C10_AllIssuedBeforeAnyResult ==
  \A q \in Started :
    (\E e \in req[q].arrived : e[1] \in {"current", "baseline"}) =>
      \A n \in Names(req[q]) : <<"current", n, 0>> \in IssuedSet(req[q])

C10_Witness ==
  \E q \in Started :
    /\ Len(req[q].tasks) = Len(regionCoordinates)
    /\ Cardinality({i \in DOMAIN req[q].tasks : req[q].tasks[i].pc = "current"})
         = Len(regionCoordinates) - 1
    /\ \E e \in req[q].arrived : e[1] = "current"

\* C11: whatever the order in which the engine completes the regions'
\* reductions, the returned data holds for each region name the value and the
\* average the engine computes for that region, and the status of their
\* difference.
C11_OrderIndependent ==
  \A q \in Started :
    Returned(req[q]) =>
      \A i \in DOMAIN req[q].outcome.result.data :
        LET d == req[q].outcome.result.data[i]
            v == Expected(<<"current", d.region, 0>>)
            a == Expected(<<"baseline", d.region, 0>>)
        IN  /\ d.region \in Names(req[q])
            /\ d.value = v
            /\ d.average = a
            /\ d.status = getSoilMoistureStatus(v - a)

C11_Witness ==
  \E q \in Started :
    /\ Returned(req[q])
    /\ req[q].reordered
    /\ Len(req[q].outcome.result.data) = Len(regionCoordinates)
    /\ engine.fault = NoFault

TrendDates(r) == [b \in DOMAIN r.trends |-> r.trends[b].date]

\* C12: the dates of the returned trend points are the dates discovery lists,
\* in the same order and number, none dropped, repeated or moved; they ascend
\* when discovery ascends.
C12_TrendsFollowDiscovery ==
  \A q \in Started :
    Returned(req[q]) =>
      LET dates == TrendDates(req[q].outcome.result)
      IN  /\ dates = engine.dates
          /\ (\A i, j \in DOMAIN engine.dates :
                i < j => engine.dates[i] <= engine.dates[j])
               => \A i, j \in DOMAIN dates : i < j => dates[i] <= dates[j]

C12_Witness ==
  \E q \in Started :
    /\ Returned(req[q])
    /\ Len(engine.dates) = MaxDates
    /\ engine.dates[1] > engine.dates[MaxDates]
    /\ TrendDates(req[q].outcome.result) = engine.dates

\* C13: the region keys of every trend point are exactly the regions selected
\* for the call.
C13_TrendKeysAreSelected ==
  \A q \in Started :
    /\ \A b \in DOMAIN req[q].trends :
         DOMAIN req[q].trends[b].values = Names(req[q])
    /\ \A b \in DOMAIN req[q].outcome.result.trends :
         DOMAIN req[q].outcome.result.trends[b].values = Names(req[q])

C13_Witness ==
  \E q \in Started :
    /\ Returned(req[q])
    /\ req[q].region = "Eastern Basin"
    /\ Len(req[q].outcome.result.trends) = MaxDates
    /\ DOMAIN req[q].outcome.result.trends[1].values = {"Eastern Basin"}

StatusValues == {"Above Normal", "Normal", "Moderate Drought", "Severe Drought"}

\* C14: in every summary of a returned result the status is the bucket of
\* (value - average) of that summary, one of the four status values.
C14_StatusOfDifference ==
  \A q \in Started :
    \A i \in DOMAIN req[q].outcome.result.data :
      LET d == req[q].outcome.result.data[i]
          diff == d.value - d.average
      IN  /\ d.status \in StatusValues
          /\ d.status = "Above Normal" <=> diff > 20
          /\ d.status = "Normal" <=> (10 < diff /\ diff <= 20)
          /\ d.status = "Moderate Drought" <=> (0 < diff /\ diff <= 10)
          /\ d.status = "Severe Drought" <=> diff <= 0

C14_Witness ==
  \E q \in Started :
    /\ Returned(req[q])
    /\ {req[q].outcome.result.data[i].status :
          i \in DOMAIN req[q].outcome.result.data} = StatusValues

\* C15: the returned data holds one summary per selected region and no other:
\* every registered region when the region argument is absent or 'entire',
\* the named region alone otherwise.
C15_OneSummaryPerSelected ==
  \A q \in Started :
    Returned(req[q]) =>
      LET data == req[q].outcome.result.data
          wanted == IF req[q].region \in {"", "entire"}
                    THEN RegionKeys ELSE {req[q].region}
      IN  /\ {data[i].region : i \in DOMAIN data} = wanted
          /\ Len(data) = Cardinality(wanted)

C15_Witness ==
  \E q \in Started :
    /\ Returned(req[q])
    /\ req[q].region = "entire"
    /\ Len(req[q].outcome.result.data) = Cardinality(RegionKeys)


\* C16: getTimeFilter advances by 1 day for 'daily', 1 week for 'weekly',
\* 1 month for 'monthly' and 1 week for every other value.
C16_TimeFilter ==
  timeFilter # NoFilter =>
    /\ timeFilter.advance = 1
    /\ timeStep = "daily" => timeFilter.unit = "day"
    /\ timeStep = "weekly" => timeFilter.unit = "week"
    /\ timeStep = "monthly" => timeFilter.unit = "month"
    /\ timeStep \notin {"daily", "weekly", "monthly"} => timeFilter.unit = "week"

C16_Witness == timeStep = "yearly" /\ timeFilter = [advance |-> 1, unit |-> "week"]

\* equality and negation of exact quotients
SameValue(x, y) == x.den # 0 /\ y.den # 0 /\ x.num * y.den = y.num * x.den
Negated(x) == Quotient(-x.num, x.den)

\* C18: for bands A, B with A + B # 0 the index of the swapped bands is the
\* negation of the index, and the index of equal bands is 0.
C18_Antisymmetric ==
  (ndmi # NoValue /\ nir + swir # 0) =>
    /\ ndmi = calculateNDMI(nir, swir)
    /\ SameValue(calculateNDMI(swir, nir), Negated(ndmi))
    /\ nir = swir => SameValue(ndmi, Quotient(0, 1))

C18_Witness ==
  /\ ndmi # NoValue
  /\ nir = 3
  /\ swir = 1
  /\ SameValue(ndmi, Quotient(1, 2))


\* C17: two calls with the same region argument against the same engine
\* return the same data and the same trends (the summaries' wall-clock date
\* apart, which is no part of the state).
C17_RepeatableResult ==
  \A q1, q2 \in Started :
    (/\ Returned(req[q1])
     /\ Returned(req[q2])
     /\ req[q1].region = req[q2].region) =>
      /\ req[q1].outcome.result.data = req[q2].outcome.result.data
      /\ req[q1].outcome.result.trends = req[q2].outcome.result.trends

C17_Witness ==
  \E q1, q2 \in Started :
    /\ q1 # q2
    /\ Returned(req[q1])
    /\ Returned(req[q2])
    /\ req[q1].region = "entire"
    /\ req[q2].region = "entire"
    /\ Len(req[q2].outcome.result.trends) = MaxDates


Outstanding(s) == {e \in IssuedSet(s) : e \notin s.arrived}

\* C19 as stated: the baseline reduction of a region is issued without waiting
\* for the result of that region's current reduction, so it is issued as soon
\* as the current one is.
C19_BaselineWithoutWaiting ==
  \A q \in Started : \A n \in Names(req[q]) :
    <<"current", n, 0>> \in IssuedSet(req[q])
      => <<"baseline", n, 0>> \in IssuedSet(req[q])

\* C19 as amended: the baseline reduction of a region is issued only after
\* that region's current reduction has returned a result, so a region has at
\* most one reduction outstanding, while reductions of different regions are
\* outstanding together.
C19_BaselineAfterCurrent ==
  \A q \in Started : \A n \in Names(req[q]) :
    /\ <<"baseline", n, 0>> \in IssuedSet(req[q]) =>
         /\ <<"current", n, 0>> \in req[q].arrived
         /\ ~Failed(<<"current", n, 0>>)
    /\ Cardinality({e \in Outstanding(req[q]) :
                      e[1] \in {"current", "baseline"} /\ e[2] = n}) <= 1

C19_Witness ==
  \E q \in Started :
    /\ <<"baseline", "North Region", 0>> \in Outstanding(req[q])
    /\ <<"current", "Central Plains", 0>> \in Outstanding(req[q])
    /\ <<"current", "North Region", 0>> \in req[q].arrived

\* C20: a bucket reduction is issued only after the one discovery round trip
\* of the call has completed successfully; after a failed discovery none is
\* ever issued.
C20_DiscoveryBeforeBuckets ==
  \A q \in Started :
    /\ CopiesIn(<<"discovery", "", 0>>, req[q].issued) <= 1
    /\ (\E e \in IssuedSet(req[q]) : e[1] = "trend") =>
         /\ <<"discovery", "", 0>> \in req[q].arrived
         /\ ~Failed(<<"discovery", "", 0>>)

C20_Witness ==
  \E q \in Started :
    /\ req[q].pc = "trends"
    /\ <<"discovery", "", 0>> \in req[q].arrived
    /\ Cardinality({e \in IssuedSet(req[q]) : e[1] = "trend"}) = 1
    /\ \E e \in Outstanding(req[q]) : e[1] = "trend"

C20_WitnessFailed ==
  \E q \in Started :
    /\ Thrown(req[q])
    /\ req[q].stage = "discovery"
    /\ {e \in IssuedSet(req[q]) : e[1] = "trend"} = {}


\* the bucket reductions of a call in the order the loops reach them
TrendOrder(s) ==
  [k \in 1..(Len(engine.dates) * Len(Sel(s))) |->
     <<"trend", Sel(s)[((k - 1) % Len(Sel(s))) + 1].name,
       engine.dates[((k - 1) \div Len(Sel(s))) + 1]>>]

\* C21: at most one bucket reduction is outstanding at any time; a bucket
\* reduction is issued only after every reduction before it, in discovery
\* order of the buckets and selection order of the regions, has resolved; after
\* the first failure no further one is issued.
C21_TrendsOneAtATime ==
  \A q \in Started :
    LET s == req[q]
        order == TrendOrder(s)
    IN  /\ Cardinality({e \in Outstanding(s) : e[1] = "trend"}) <= 1
        /\ \A e \in IssuedSet(s) : e[1] = "trend" =>
             \E k \in DOMAIN order :
               /\ order[k] = e
               /\ \A j \in 1..(k - 1) : order[j] \in s.arrived /\ ~Failed(order[j])
        /\ \A k \in DOMAIN order :
             (order[k] \in s.arrived /\ Failed(order[k])) =>
               /\ Thrown(s)
               /\ \A j \in DOMAIN order : j > k => order[j] \notin IssuedSet(s)

C21_Witness ==
  \E q \in Started :
    /\ Thrown(req[q])
    /\ req[q].stage = "trend"
    /\ Len(Sel(req[q])) = Len(regionCoordinates)
    /\ Cardinality({e \in req[q].arrived : e[1] = "trend"}) = Len(regionCoordinates) + 2
    /\ Cardinality({e \in IssuedSet(req[q]) : e[1] = "trend"}) = Len(regionCoordinates) + 2

\* C22: within one call each region's current reduction, each region's
\* baseline reduction, discovery and each bucket reduction is submitted at most
\* once; a failed evaluation is not submitted again and no value stands in for
\* it: the call throws without a result.
C22_NoRetryNoSubstitute ==
  \A q \in Started :
    /\ \A e \in IssuedSet(req[q]) :
         e[1] \in {"current", "baseline", "discovery", "trend"} =>
           CopiesIn(e, req[q].issued) = 1
    /\ \A e \in req[q].arrived :
         Failed(e) =>
           /\ Thrown(req[q])
           /\ req[q].outcome.result = NoResult
           /\ req[q].caught = Evaluate(e).error

C22_Witness ==
  \E q \in Started :
    /\ Thrown(req[q])
    /\ <<"current", "Central Plains", 0>> \in req[q].arrived
    /\ Failed(<<"current", "Central Plains", 0>>)
    /\ CopiesIn(<<"current", "Central Plains", 0>>, req[q].issued) = 1
    /\ \A i \in DOMAIN req[q].tasks : req[q].tasks[i].pc \in {"done", "rejected"}


\* C23: when every remote call is called back, a call that was made completes,
\* with a result or with an error; an evaluation that reports an error (a
\* client timeout included) makes the call throw; and a call completes only in
\* a step in which one of its remote calls is called back, never on a timer of
\* its own.
C23_CompletesWhenCalledBack ==
  /\ \A q \in Reqs :
       (req[q].pc # "idle") ~> (req[q].outcome.status # "pending")
  /\ [](\A q \in Started :
          (\E e \in req[q].arrived : Failed(e)) => Thrown(req[q]))
  /\ [][\A q \in Reqs :
          (/\ req[q].pc # "idle"
           /\ req[q].outcome.status = "pending"
           /\ req'[q].outcome.status # "pending")
            => req'[q].arrived # req[q].arrived]_vars

C23_Witness ==
  \E q \in Started :
    /\ Thrown(req[q])
    /\ req[q].stage = "trend"
    /\ req[q].caught = FaultValue("error")
    /\ Outstanding(req[q]) = {}


\* C24: the route calls the core only with a query that passed validation; a
\* query that failed it is answered 400 and the core is not invoked for it; a
\* call that throws is answered 500; the answer is the result body exactly
\* when the call returned one.
C24_RouteAnswers ==
  \A q \in Reqs :
    LET s == req[q] IN
    s.route =>
      /\ s.pc # "refused" => s.valid
      /\ ~s.valid =>
           /\ s.pc = "refused"
           /\ s.response = [code |-> 400, body |-> <<"Invalid request parameters">>]
           /\ s.issued = EmptyBag /\ s.tasks = <<>> /\ s.outcome = Pending
      /\ Thrown(s) =>
           s.response = [code |-> 500, body |-> <<"Failed to fetch soil moisture data">>]
      /\ Returned(s) => s.response = [code |-> 200, body |-> s.outcome.result]
      /\ s.response.code = 200 => Returned(s) /\ s.response.body # NoResult
      /\ (s.valid /\ s.outcome.status = "pending") => s.response = NoResponse
      /\ authCalls <= Cardinality({p \in Reqs : req[p].route /\ req[p].valid
                                                  /\ req[p].pc # "idle"})

C24_Witness ==
  \E q \in Reqs :
    /\ req[q].route /\ req[q].response.code = 500
    /\ req[q].stage = "trend"
    /\ Thrown(req[q])

C24_WitnessRefused ==
  \E q \in Reqs :
    /\ req[q].route /\ req[q].response.code = 400
    /\ req[q].region = "entire"
    /\ authCalls = 0

C24_WitnessOk ==
  \E q \in Reqs :
    /\ req[q].route /\ req[q].response.code = 200
    /\ Len(req[q].response.body.data) = Len(regionCoordinates)


\* C25: a region failure makes the call throw at once, whatever is still
\* outstanding, and once a call has an outcome no later callback, success or
\* failure, changes the outcome or the error it reports.
C25_OutcomeDecidedOnce ==
  /\ [](\A q \in Started :
          (\E e \in req[q].arrived :
             e[1] \in {"current", "baseline", "geometry"} /\ Failed(e))
            => Thrown(req[q]))
  /\ [][\A q \in Reqs :
          req[q].outcome.status # "pending" =>
            /\ req'[q].outcome = req[q].outcome
            /\ req'[q].caught = req[q].caught]_vars

C25_Witness ==
  \E q \in Started :
    /\ Thrown(req[q])
    /\ req[q].caught = SecondFault
    /\ engine.fault \in req[q].arrived
    /\ engine.kind = "error"
    /\ Cardinality({e \in req[q].arrived : Failed(e)}) = 2
    /\ \E i \in DOMAIN req[q].tasks : req[q].tasks[i].pc = "done"

C25_WitnessOutstanding ==
  \E q \in Started :
    /\ Thrown(req[q])
    /\ Cardinality({e \in Outstanding(req[q]) : e[1] = "current"})
         = Len(regionCoordinates) - 1


\* C26: the failure of a call cancels nothing: when the current reduction of a
\* region resolves after the call has thrown, its baseline reduction is issued
\* all the same, and when that resolves, its geometry resolution is.
C26_NoCancellation ==
  [][\A q \in Reqs : \A n \in Names(req[q]) :
       Thrown(req[q]) =>
         /\ (/\ <<"current", n, 0>> \in req'[q].arrived \ req[q].arrived
             /\ ~Failed(<<"current", n, 0>>))
              => <<"baseline", n, 0>> \in Outstanding(req'[q])
         /\ (/\ <<"baseline", n, 0>> \in req'[q].arrived \ req[q].arrived
             /\ ~Failed(<<"baseline", n, 0>>)
             /\ n \in RegionKeys)
              => <<"geometry", n, 0>> \in IssuedSet(req'[q])]_vars

C26_Witness ==
  \E q \in Started :
    /\ Thrown(req[q])
    /\ req[q].late
    /\ req[q].stage = "current"
    /\ \A i \in DOMAIN req[q].tasks : req[q].tasks[i].pc \in {"done", "rejected"}
    /\ Cardinality({e \in IssuedSet(req[q]) : e[1] = "geometry"})
         = Len(regionCoordinates) - 1


\* C27: discovery or a bucket reduction is issued only when the current and
\* the baseline reduction of every selected region have resolved, none is
\* outstanding and none failed.
C27_TrendsAfterSpatial ==
  \A q \in Started :
    (\E e \in IssuedSet(req[q]) : e[1] \in {"discovery", "trend"}) =>
      /\ \A n \in Names(req[q]) : \A st \in {"current", "baseline"} :
           /\ <<st, n, 0>> \in req[q].arrived
           /\ ~Failed(<<st, n, 0>>)
      /\ \A e \in Outstanding(req[q]) : e[1] \notin {"current", "baseline"}
      /\ \A i \in DOMAIN req[q].tasks : req[q].tasks[i].pc = "done"

C27_Witness ==
  \E q \in Started :
    /\ req[q].pc = "trends"
    /\ <<"discovery", "", 0>> \in req[q].arrived
    /\ Len(req[q].tasks) = Len(regionCoordinates)
    /\ req[q].reordered

C27_WitnessFailed ==
  \E q \in Started :
    /\ Thrown(req[q])
    /\ req[q].stage = "baseline"
    /\ \A i \in DOMAIN req[q].tasks : req[q].tasks[i].pc \in {"done", "rejected"}
    /\ Cardinality({i \in DOMAIN req[q].tasks : req[q].tasks[i].pc = "done"})
         = Len(regionCoordinates) - 1
    /\ <<"discovery", "", 0>> \notin IssuedSet(req[q])

Unregistered(region) == region \notin RegionKeys \cup {"", "entire"}

\* C28: a call whose region argument is a name that is no key of the registry
\* never returns: it holds no result, no geometry of the name is resolved, and
\* once its reductions have been called back it has thrown, whatever the
\* engine answered.
C28_UnregisteredThrows ==
  \A q \in Started :
    Unregistered(req[q].region) =>
      /\ ~Returned(req[q])
      /\ req[q].outcome.result = NoResult
      /\ \A e \in IssuedSet(req[q]) : e[1] \notin {"geometry", "boundary", "discovery", "trend"}
      /\ (/\ req[q].tasks # <<>>
          /\ \A i \in DOMAIN req[q].tasks :
               req[q].tasks[i].pc \notin {"current", "baseline"})
           => Thrown(req[q])

C28_Witness ==
  \E q \in Started :
    /\ req[q].region = "custom"
    /\ Thrown(req[q])
    /\ req[q].caught = TypeError
    /\ req[q].stage = "geometry"
    /\ engine.fault = NoFault

\* C30: in a returned result the region names of data, the names of the
\* boundary features and the keys of every trend point are the same set; data
\* and regions list them in the same order, the order of the registry, one
\* feature per summary.
C30_SameRegionsEverywhere ==
  \A q \in Started :
    Returned(req[q]) =>
      LET r == req[q].outcome.result
          dataNames == [i \in DOMAIN r.data |-> r.data[i].region]
          featureNames == [i \in DOMAIN r.regions |-> r.regions[i].name]
          position(n) == CHOOSE i \in 1..Len(regionCoordinates) :
                           regionCoordinates[i].name = n
      IN  /\ dataNames = featureNames
          /\ Len(r.data) = Len(r.regions)
          /\ \A i, j \in DOMAIN dataNames :
               i < j => position(dataNames[i]) < position(dataNames[j])
          /\ \A b \in DOMAIN r.trends :
               DOMAIN r.trends[b].values = {dataNames[i] : i \in DOMAIN dataNames}
          /\ \A i \in DOMAIN r.data :
               r.data[i].coordinates = r.regions[i].coordinates

C30_Witness ==
  \E q \in Started :
    /\ Returned(req[q])
    /\ req[q].region = "North Region"
    /\ Len(req[q].outcome.result.regions) = 1
    /\ Len(req[q].outcome.result.trends) = MaxDates

C30_WitnessAll ==
  \E q \in Started :
    /\ Returned(req[q])
    /\ req[q].reordered
    /\ [i \in 1..Len(regionCoordinates) |-> req[q].outcome.result.regions[i].name]
         = [i \in 1..Len(regionCoordinates) |-> regionCoordinates[i].name]


\* C29: every region value the client sends is a key of the registry, and the
\* request of every selectable region, once accepted by the route and
\* finished against an engine that never fails, is answered with a result.
C29_SelectableRegionsSucceed ==
  \A q \in Reqs :
    (req[q].route /\ req[q].valid /\ req[q].pc # "idle") =>
      /\ req[q].region \in RegionKeys \cup {""}
      /\ req[q].pc = "finished" => req[q].response.code = 200

C29_EntireSucceeds ==
  \A q \in Reqs :
    (req[q].route /\ req[q].valid /\ req[q].region = "" /\ req[q].pc = "finished")
      => req[q].response.code = 200

C29_SelectedFails ==
  \E q \in Reqs :
    /\ req[q].route /\ req[q].region = "region1"
    /\ req[q].response.code = 500
    /\ req[q].caught = TypeError

====
